---- MODULE Spec2Model ----
(***************************************************************************)
(* A model of SOLRConnection (src/lib/solr-connection.js): the connection  *)
(* lifecycle (start / stop / isStarted) and the DDL, data and transaction  *)
(* operations of the class, each translated from its method body.          *)
(***************************************************************************)
EXTENDS Integers, Sequences, FiniteSets, TLC

\* ------------------------------------------------------------- bounds
\* HTTPClient objects constructed in one run (start() is guarded by it).
MaxHandles == 3
\* Longest `models` array handed to a bulk operation.
MaxModels == 3
\* Largest explicit options.batchSize tried besides the documented default.
MaxBatch == 2
\* Most records the store's bucket holds when the run begins.
MaxRecords == 1

\* ---------------------------------------------------------- constants
\* `models` given as null / undefined (destroyModels' documented case).
Null == -1
\* The documented default of options.batchSize.
DefaultBatchSize == 500
\* this.constructor.name of a SOLRConnection instance.
ClassName == "SOLRConnection"
\* The text every stub method throws after "<class>::<name>: ".
NotSupportedText == "This operation is not supported for this connection type."

\* -------------------------------------------------------------- state
VARIABLES
  httpClient,     \* this.httpClient: {} is null, {h} a reference to handle h
  created,        \* HTTPClient objects constructed so far: handles 1..created
  released,       \* handles that stop() dropped from the connection
  lastLifecycle,  \* the last of start / stop that was called ("none" at first)
  call,           \* the last method call: [op, args]
  result,         \* its outcome: a returned value, a sequence, or a thrown Error
  sent,           \* transport requests issued by the last call
  requests,       \* transport requests issued since construction
  callbackCalls,  \* times a transaction callback was invoked
  bucket,         \* records held by the store's bucket of the model
  inner,          \* the connection's own methods the last call invoked, in order
  logged,         \* records delivered to a logger's log() since construction
  gen             \* the async generator the last select() returned

vars == <<httpClient, created, released, lastLifecycle, call, result, sent,
          requests, callbackCalls, bucket, inner, logged, gen>>

\* Everything but the call's own record (call, result, sent, inner).
connState == <<httpClient, created, released, lastLifecycle, requests,
               callbackCalls, bucket, logged>>

\* ------------------------------------------------------------- inputs
ModelsArgs == {Null} \cup (0 .. MaxModels)
BatchSizes == (1 .. MaxBatch) \cup {DefaultBatchSize}
CallbackValues == {"v1", "v2"}

\* Arguments a call does not take keep these values.
Targets == {"User", "Role"}

\* failAt: the batch (counted from 0) at which the transport would fail, Null
\* for a transport that answers every request; single: `models` is one record
\* and not an array; missingPK: some record has no primary key; dirty: how many
\* of the records are flagged dirty; logger: where a logger with a log method
\* is supplied ("options", "connection") or "none"; queryGenerator: what the
\* constructor's options hold under that key ("none" for any other call).
NoArgs == [target |-> "none", models |-> Null, batchSize |-> DefaultBatchSize,
           truncate |-> FALSE, callbackValue |-> "undefined", failAt |-> Null,
           single |-> FALSE, missingPK |-> FALSE, dirty |-> Null,
           logger |-> "none", queryGenerator |-> "none"]

\* new SOLRConnection(_options): no options object at all ("noOptions"), an
\* options object without the key ("undefined"), with the key set to null
\* ("null"), or with a query generator of the caller's ("supplied").
ConstructorArgs == {[NoArgs EXCEPT !.queryGenerator = g] :
                      g \in {"noOptions", "undefined", "null", "supplied"}}

\* (Model | Field | query, options): the target is all the model keeps of them.
TargetArgs == {[NoArgs EXCEPT !.target = t] : t \in Targets}

\* (Model, models, options { batchSize, truncate })
BulkArgs == {[NoArgs EXCEPT !.target = "User", !.models = m, !.batchSize = b,
                            !.truncate = t] :
               m \in ModelsArgs, b \in BatchSizes, t \in BOOLEAN}

\* insert(Model, models, options) against a transport that fails at batch k,
\* for each k that is a batch of the m records.
FailingArgs ==
  {a \in {[NoArgs EXCEPT !.target = "User", !.models = m, !.batchSize = b,
                         !.failAt = k] :
            m \in 1 .. MaxModels, b \in 1 .. MaxBatch, k \in 0 .. MaxModels - 1} :
     a.failAt * a.batchSize < a.models}

\* insert(Model, model, options): one record, not an array.
SingleArgs == {[NoArgs EXCEPT !.target = "User", !.models = 1, !.single = TRUE]}

InsertArgs == BulkArgs \cup FailingArgs \cup SingleArgs

\* update(Model, models, options) with the records' primary keys and dirty flags.
DirtyArgs ==
  {a \in {[NoArgs EXCEPT !.target = "User", !.models = m, !.missingPK = p,
                         !.dirty = d] :
            m \in 1 .. MaxModels, p \in BOOLEAN, d \in 0 .. MaxModels} :
     a.dirty <= a.models}

UpdateArgs == BulkArgs \cup DirtyArgs

\* createTables(Models, options) / dropTables(Models, options): null, or a list
\* of model classes numbered 1..m in creation order.
TablesArgs == {[NoArgs EXCEPT !.models = m] : m \in ModelsArgs}

\* query(lucene, options), with or without a logger.
RawQueryArgs == {[NoArgs EXCEPT !.target = "query", !.logger = l] :
                   l \in {"none", "options", "connection"}}

\* (queryEngine, ...): a query in place of a model class.
QueryArgs == {[NoArgs EXCEPT !.target = "query"]}

\* (callback, options): the callback is kept as the value it would return.
CallbackArgs == {[NoArgs EXCEPT !.callbackValue = v] : v \in CallbackValues}

\* ------------------------------------------------------------ results
\* kind: "ok" (a returned value), "sequence" (a generator), "error" (a thrown
\* Error, with the class, the operation name and the text of its message);
\* length is the length of a returned collection and number a returned number,
\* each Null for any other value.
NoResult ==
  [kind |-> "none", class |-> "", op |-> "", text |-> "", value |-> "undefined",
   length |-> Null, number |-> Null]

Returned(v) ==
  [kind |-> "ok", class |-> "", op |-> "", text |-> "", value |-> v,
   length |-> Null, number |-> Null]

\* new Error(`${this.constructor.name}::${name}: This operation is not supported ...`)
NotSupported(name) ==
  [kind |-> "error", class |-> ClassName, op |-> name, text |-> NotSupportedText,
   value |-> "undefined", length |-> Null, number |-> Null]

\* ReferenceError: Utils is not defined (Utils is used and never imported).
UtilsNotDefined ==
  [kind |-> "error", class |-> "ReferenceError", op |-> "",
   text |-> "Utils is not defined", value |-> "undefined", length |-> Null,
   number |-> Null]

\* The async generator object a call of select() returns.
Sequence ==
  [kind |-> "sequence", class |-> "", op |-> "", text |-> "", value |-> "undefined",
   length |-> Null, number |-> Null]

\* ---------------------------------------------------------- lifecycle
\* isStarted(): return !!this.httpClient
isStarted == httpClient # {}

\* new HTTPClient(): a fresh transport handle, distinct from every earlier one.
NewHTTPClient == created + 1

\* Handles constructed and never dropped by stop().
Unreleased == (1 .. created) \ released

\* Handles constructed, no longer referenced by the connection, never released.
Leaked == Unreleased \ httpClient

\* A constructor that installs its own generator whatever the options hold.
installsDefaultQueryGenerator_always(a) == TRUE

\* if (!(_options && _options.queryGenerator)): the options object is missing
\* or its queryGenerator is falsy.
installsDefaultQueryGenerator(a) ==
  a.queryGenerator \in {"noOptions", "undefined", "null"}

\* this.setQueryGenerator(new SOLRQueryGenerator(this)): model 0 stands for
\* "no model class", the generator being bound to the connection itself.
SetDefaultQueryGenerator == [op |-> "setQueryGenerator", model |-> 0]

\* constructor(_options): the guarded setQueryGenerator call, then
\* httpClient defined as null; the other variables are the history of a
\* connection nothing was called on.
Init ==
  /\ httpClient = {}
  /\ created = 0
  /\ released = {}
  /\ lastLifecycle = "none"
  /\ \E a \in ConstructorArgs :
       /\ call = [op |-> "constructor", args |-> a]
       /\ inner = IF installsDefaultQueryGenerator(a)
                  THEN <<SetDefaultQueryGenerator>> ELSE <<>>
  /\ result = NoResult
  /\ sent = 0
  /\ requests = 0
  /\ callbackCalls = 0
  /\ bucket \in 0 .. MaxRecords
  /\ logged = 0
  /\ gen = "none"

\* -------------------------------------------------- lifecycle actions
\* A start() that keeps the handle it already has.
start_keepsFirstHandle ==
  /\ created < MaxHandles
  /\ httpClient' = IF isStarted THEN httpClient ELSE {NewHTTPClient}
  /\ created' = IF isStarted THEN created ELSE created + 1
  /\ lastLifecycle' = "start"
  /\ call' = [op |-> "start", args |-> NoArgs]
  /\ result' = Returned("undefined")
  /\ sent' = 0
  /\ inner' = <<>>
  /\ UNCHANGED <<released, requests, callbackCalls, bucket, logged, gen>>

\* A start() that adds the new handle to the ones it references.
start_addsHandle ==
  /\ created < MaxHandles
  /\ httpClient' = httpClient \cup {NewHTTPClient}
  /\ created' = created + 1
  /\ lastLifecycle' = "start"
  /\ call' = [op |-> "start", args |-> NoArgs]
  /\ result' = Returned("undefined")
  /\ sent' = 0
  /\ inner' = <<>>
  /\ UNCHANGED <<released, requests, callbackCalls, bucket, logged, gen>>

\* async start() { this.httpClient = new HTTPClient(); }
start ==
  /\ created < MaxHandles
  /\ httpClient' = {NewHTTPClient}
  /\ created' = created + 1
  /\ lastLifecycle' = "start"
  /\ call' = [op |-> "start", args |-> NoArgs]
  /\ result' = Returned("undefined")
  /\ sent' = 0
  /\ inner' = <<>>
  /\ UNCHANGED <<released, requests, callbackCalls, bucket, logged, gen>>

\* A stop() that forgets to clear the property.
stop_keepsHandle ==
  /\ lastLifecycle' = "stop"
  /\ call' = [op |-> "stop", args |-> NoArgs]
  /\ result' = Returned("undefined")
  /\ sent' = 0
  /\ inner' = <<>>
  /\ UNCHANGED <<httpClient, released, created, requests, callbackCalls, bucket, logged, gen>>

\* async stop() { this.httpClient = null; }
stop ==
  /\ httpClient' = {}
  /\ released' = released \cup httpClient
  /\ lastLifecycle' = "stop"
  /\ call' = [op |-> "stop", args |-> NoArgs]
  /\ result' = Returned("undefined")
  /\ sent' = 0
  /\ inner' = <<>>
  /\ UNCHANGED <<created, requests, callbackCalls, bucket, logged, gen>>

\* A call of isStarted(): returns the boolean, changes nothing.
isStartedCall ==
  /\ call' = [op |-> "isStarted", args |-> NoArgs]
  /\ result' = Returned(IF isStarted THEN "true" ELSE "false")
  /\ sent' = 0
  /\ inner' = <<>>
  /\ UNCHANGED <<connState, gen>>

\* ------------------------------------------------------ the stub body
\* throw new Error(`${this.constructor.name}::${name}: This operation is not
\* supported for this connection type.`): the whole body of a stub method
\* called as `op` with `args`. Nothing else is read or written.
Throw(op, args, name) ==
  /\ call' = [op |-> op, args |-> args]
  /\ result' = NotSupported(name)
  /\ sent' = 0
  /\ inner' = <<>>
  /\ UNCHANGED <<connState, gen>>

\* ----------------------------------------------------- DDL operations
\* A createTable that reaches the store once the connection is started.
createTable_whenStarted ==
  \E a \in TargetArgs :
    /\ call' = [op |-> "createTable", args |-> a]
    /\ result' = IF isStarted THEN Returned("undefined") ELSE NotSupported("createTable")
    /\ sent' = IF isStarted THEN 1 ELSE 0
    /\ inner' = <<>>
    /\ requests' = requests + sent'
    /\ UNCHANGED <<httpClient, created, released, lastLifecycle, callbackCalls, bucket, logged, gen>>

\* async dropTable(...) { throw new Error(`...::dropTable: ...`) }
dropTable == \E a \in TargetArgs : Throw("dropTable", a, "dropTable")

\* async createTable(...) { throw new Error(`...::createTable: ...`) }
createTable == \E a \in TargetArgs : Throw("createTable", a, "createTable")

\* async defineTable(...) { throw new Error(`...::defineTable: ...`) }
defineTable == \E a \in TargetArgs : Throw("defineTable", a, "defineTable")

\* async defineConstraints(...) { throw new Error(`...::defineConstraints: ...`) }
defineConstraints == \E a \in TargetArgs : Throw("defineConstraints", a, "defineConstraints")

\* async defineIndexes(...) { throw new Error(`...::defineIndexes: ...`) }
defineIndexes == \E a \in TargetArgs : Throw("defineIndexes", a, "defineIndexes")

\* async alterTable(...) { throw new Error(`...::renameTable: ...`) }
alterTable == \E a \in TargetArgs : Throw("alterTable", a, "renameTable")

\* async dropColumn(...) { throw new Error(`...::dropColumn: ...`) }
dropColumn == \E a \in TargetArgs : Throw("dropColumn", a, "dropColumn")

\* async alterColumn(...) { throw new Error(`...::alterColumn: ...`) }
alterColumn == \E a \in TargetArgs : Throw("alterColumn", a, "alterColumn")

\* async addColumn(...) { throw new Error(`...::addColumn: ...`) }
addColumn == \E a \in TargetArgs : Throw("addColumn", a, "addColumn")

\* async addIndex(...) { throw new Error(`...::addIndex: ...`) }
addIndex == \E a \in TargetArgs : Throw("addIndex", a, "addIndex")

\* async dropIndex(...) { throw new Error(`...::addIndex: ...`) }
dropIndex == \E a \in TargetArgs : Throw("dropIndex", a, "addIndex")

\* async dropTables(_Models, options): returns at once for a missing list;
\* otherwise it collects the models by name and then reads Utils, which is not
\* defined, so it throws before the loop that calls dropTable.
dropTables ==
  \E a \in TablesArgs :
    /\ call' = [op |-> "dropTables", args |-> a]
    /\ result' = IF a.models = Null THEN Returned("undefined") ELSE UtilsNotDefined
    /\ sent' = 0
    /\ inner' = <<>>
    /\ UNCHANGED <<connState, gen>>

\* async createTables(_Models, options): as dropTables, the loop that calls
\* createTable is never reached.
createTables ==
  \E a \in TablesArgs :
    /\ call' = [op |-> "createTables", args |-> a]
    /\ result' = IF a.models = Null THEN Returned("undefined") ELSE UtilsNotDefined
    /\ sent' = 0
    /\ inner' = <<>>
    /\ UNCHANGED <<connState, gen>>

\* ---------------------------------------------------- data operations
\* async insert(...) { throw new Error(`...::insert: ...`) }
insert == \E a \in InsertArgs : Throw("insert", a, "insert")

\* async upsert(...) { throw new Error(`...::upsert: ...`) }
upsert == \E a \in BulkArgs : Throw("upsert", a, "upsert")

\* async update(...) { throw new Error(`...::update: ...`) }
update == \E a \in UpdateArgs : Throw("update", a, "update")

\* async updateAll(...) { throw new Error(`...::updateAll: ...`) }
updateAll == \E a \in QueryArgs : Throw("updateAll", a, "updateAll")

\* async destroyModels(...) { throw new Error(`...::destroyModels: ...`) }
destroyModels == \E a \in BulkArgs : Throw("destroyModels", a, "destroyModels")

\* async destroy(...) { throw new Error(`...::destroy: ...`) }
destroy == \E a \in BulkArgs \cup QueryArgs : Throw("destroy", a, "destroy")

\* A select that is a plain async function: the call itself fails.
select_throwsAtCall ==
  \E a \in QueryArgs :
    /\ call' = [op |-> "select", args |-> a]
    /\ result' = NotSupported("select")
    /\ sent' = 0
    /\ inner' = <<>>
    /\ UNCHANGED <<connState, gen>>

\* async *select(...): the call runs none of the body; it returns a generator
\* suspended at its start.
select ==
  \E a \in QueryArgs :
    /\ call' = [op |-> "select", args |-> a]
    /\ result' = Sequence
    /\ gen' = "suspendedStart"
    /\ sent' = 0
    /\ inner' = <<>>
    /\ UNCHANGED connState

\* next() on the generator: the first pull runs the body, which throws and so
\* closes the generator; a closed generator answers { done: true }.
selectNext ==
  /\ gen # "none"
  /\ call' = [op |-> "select.next", args |-> NoArgs]
  /\ result' = IF gen = "suspendedStart" THEN NotSupported("select") ELSE Returned("done")
  /\ gen' = "closed"
  /\ sent' = 0
  /\ inner' = <<>>
  /\ UNCHANGED connState

\* return() on the generator (the consumer abandons it): closes it without
\* running the body.
selectReturn ==
  /\ gen # "none"
  /\ call' = [op |-> "select.return", args |-> NoArgs]
  /\ result' = Returned("done")
  /\ gen' = "closed"
  /\ sent' = 0
  /\ inner' = <<>>
  /\ UNCHANGED connState

\* async aggregate(...) { throw new Error(`...::aggregate: ...`) }
aggregate == \E a \in QueryArgs : Throw("aggregate", a, "aggregate")

\* async average(...) { throw new Error(`...::average: ...`) }
average == \E a \in QueryArgs : Throw("average", a, "average")

\* async count(...) { throw new Error(`...::count: ...`) }
count == \E a \in QueryArgs : Throw("count", a, "count")

\* async min(...) { throw new Error(`...::min: ...`) }
min == \E a \in QueryArgs : Throw("min", a, "min")

\* async max(...) { throw new Error(`...::max: ...`) }
max == \E a \in QueryArgs : Throw("max", a, "max")

\* async sum(...) { throw new Error(`...::sum: ...`) }
sum == \E a \in QueryArgs : Throw("sum", a, "sum")

\* async pluck(...) { throw new Error(`...::pluck: ...`) }
pluck == \E a \in QueryArgs : Throw("pluck", a, "pluck")

\* An exists that answers on a started connection and fails on a stopped one.
exists_whenStarted ==
  \E a \in QueryArgs :
    /\ call' = [op |-> "exists", args |-> a]
    /\ result' = IF isStarted THEN Returned("false") ELSE NotSupported("exists")
    /\ sent' = 0
    /\ inner' = <<>>
    /\ UNCHANGED <<connState, gen>>

\* async exists(...) { throw new Error(`...::exists: ...`) }
exists == \E a \in QueryArgs : Throw("exists", a, "exists")

\* A truncate that drops the transport handle before it fails.
truncate_dropsHandle ==
  \E a \in TargetArgs :
    /\ call' = [op |-> "truncate", args |-> a]
    /\ result' = NotSupported("truncate")
    /\ httpClient' = {}
    /\ released' = released \cup httpClient
    /\ sent' = 0
    /\ inner' = <<>>
    /\ UNCHANGED <<created, lastLifecycle, requests, callbackCalls, bucket, logged, gen>>

\* async truncate(Model, options) { throw new Error(`...::truncate: ...`) }
truncate == \E a \in TargetArgs : Throw("truncate", a, "truncate")

\* A query that sends the text through the transport handle when there is one.
query_sendsRequest ==
  \E a \in RawQueryArgs :
    /\ call' = [op |-> "query", args |-> a]
    /\ result' = NotSupported("query")
    /\ sent' = IF isStarted THEN 1 ELSE 0
    /\ requests' = IF isStarted THEN requests + 1 ELSE requests
    /\ inner' = <<>>
    /\ UNCHANGED <<httpClient, created, released, lastLifecycle, callbackCalls,
                   bucket, logged, gen>>

\* async query(lucene, options) { throw new Error(`...::query: ...`) }
query == \E a \in RawQueryArgs : Throw("query", a, "query")

\* A transaction that runs the callback and returns what it returns.
transaction_callsCallback ==
  \E a \in CallbackArgs :
    /\ call' = [op |-> "transaction", args |-> a]
    /\ result' = Returned(a.callbackValue)
    /\ callbackCalls' = callbackCalls + 1
    /\ sent' = 0
    /\ inner' = <<>>
    /\ UNCHANGED <<httpClient, created, released, lastLifecycle, requests, bucket, logged, gen>>

\* A transaction that runs the callback and fails afterwards.
transaction_callsThenThrows ==
  \E a \in CallbackArgs :
    /\ call' = [op |-> "transaction", args |-> a]
    /\ result' = NotSupported("transaction")
    /\ callbackCalls' = callbackCalls + 1
    /\ sent' = 0
    /\ inner' = <<>>
    /\ UNCHANGED <<httpClient, created, released, lastLifecycle, requests, bucket, logged, gen>>

\* async transaction(callback, options) { throw new Error(`...::transaction: ...`) }
transaction == \E a \in CallbackArgs : Throw("transaction", a, "transaction")

\* ------------------------------------------------------ specification
DDLOps == {"createTable", "dropTable", "alterTable", "alterColumn", "addColumn",
           "dropColumn", "addIndex", "dropIndex", "defineTable",
           "defineConstraints", "defineIndexes"}

\* The operations that answer at once (select answers with a generator).
EagerDataOps == {"insert", "upsert", "update", "updateAll", "destroyModels",
                 "destroy", "aggregate", "average", "count", "min", "max", "sum",
                 "pluck", "exists", "truncate", "query", "transaction"}

Next ==
  \/ start \/ stop \/ isStartedCall
  \/ dropTables \/ createTables
  \/ dropTable \/ createTable \/ defineTable \/ defineConstraints \/ defineIndexes
  \/ alterTable \/ dropColumn \/ alterColumn \/ addColumn \/ addIndex \/ dropIndex
  \/ insert \/ upsert \/ update \/ updateAll \/ destroyModels \/ destroy
  \/ select \/ selectNext \/ selectReturn
  \/ aggregate \/ average \/ count \/ min \/ max \/ sum \/ pluck \/ exists
  \/ truncate \/ query \/ transaction

Spec == Init /\ [][Next]_vars

TypeOK ==
  /\ httpClient \subseteq 1 .. created
  /\ created \in 0 .. MaxHandles
  /\ released \subseteq 1 .. created
  /\ lastLifecycle \in {"none", "start", "stop"}
  /\ sent \in Nat /\ requests \in Nat /\ callbackCalls \in Nat
  /\ bucket \in 0 .. MaxRecords
  /\ inner \in Seq([op : STRING, model : Nat])
  /\ logged \in Nat
  /\ gen \in {"none", "suspendedStart", "closed"}
  /\ result.kind \in {"none", "ok", "error", "sequence"}

\* ============================================================= claims

\* C1: a new connection is stopped; after any sequence of calls isStarted()
\* is true exactly when the last lifecycle call (start or stop) was start().
C1_Lifecycle ==
  /\ (lastLifecycle = "none" => ~isStarted)
  /\ (lastLifecycle = "start" => isStarted)
  /\ (lastLifecycle = "stop" => ~isStarted)

\* C1 witness: started again after a stop, with a data call made since.
C1_Witness ==
  /\ lastLifecycle = "start" /\ isStarted /\ released # {}
  /\ call.op = "insert"

\* C2 (as claimed): a data operation attempted while stopped fails with a
\* NotStarted error (select on the first pull of its sequence).
C2_NotStartedWhenStopped ==
  [][/\ (~isStarted /\ call'.op \in EagerDataOps)
          => (result'.kind = "error" /\ result'.text = "NotStarted")
     /\ (~isStarted /\ gen = "suspendedStart" /\ call'.op = "select.next")
          => (result'.kind = "error" /\ result'.text = "NotStarted")]_vars

\* C3: every DDL operation fails with the "not supported" Error, whatever
\* its argument and lifecycle state, and issues no transport request.
C3_DDLUnsupported ==
  call.op \in DDLOps =>
    /\ result.kind = "error"
    /\ result.text = NotSupportedText
    /\ sent = 0
    /\ requests = 0

\* C3 witness: createTable(Role) failed on a started connection.
C3_Witness ==
  /\ isStarted /\ call.op = "createTable" /\ call.args.target = "Role"
  /\ result.kind = "error"

\* C4 (as claimed): the Error of a DDL operation names the operation called.
C4_ErrorNamesOperation ==
  (call.op \in DDLOps /\ result.kind = "error") => result.op = call.op

\* C5: a start() on a started connection installs a new handle distinct from
\* every earlier one, leaves the replaced handle unreleased (leaked), so the
\* unreleased and the leaked handles each grow by one; a leaked handle is
\* never released afterwards.
C5_StartLeaksFirstHandle ==
  [][/\ (isStarted /\ call'.op = "start") =>
          /\ Cardinality(httpClient') = 1
          /\ httpClient' \cap (1 .. created) = {}
          /\ httpClient \subseteq Leaked'
          /\ Cardinality(Leaked') = Cardinality(Leaked) + 1
          /\ Cardinality(Unreleased') = Cardinality(Unreleased) + 1
     /\ Leaked \subseteq Leaked']_vars

\* C5 witness: two extra start() calls have leaked two handles.
C5_Witness == isStarted /\ Cardinality(Leaked) >= 2

\* C6: the connection references at most one transport handle.
C6_AtMostOneHandle == Cardinality(httpClient) <= 1

\* C6 witness: a second handle was created and a data call made on it.
C6_Witness == isStarted /\ created >= 2 /\ call.op \in EagerDataOps

\* C7 (as claimed): transaction calls the callback and returns its value.
C7_TransactionReturnsCallbackValue ==
  call.op = "transaction" =>
    /\ result.kind = "ok"
    /\ result.value = call.args.callbackValue
    /\ callbackCalls >= 1

\* C7 (amended): transaction rejects with the "not supported" Error naming
\* transaction, without calling the callback or returning its value.
C7_TransactionRejects ==
  [][call'.op = "transaction" =>
       /\ result' = NotSupported("transaction")
       /\ callbackCalls' = callbackCalls]_vars

\* C7 witness: transaction(callback) was called on a started connection.
C7_Witness ==
  /\ isStarted /\ call.op = "transaction" /\ call.args.callbackValue = "v2"
  /\ result.kind = "error"

\* C8 (as claimed): destroyModels with null models and no truncate returns
\* silently, issues no transport call and leaves the bucket unchanged.
C8_DestroyModelsNullIsNoOp ==
  [][(/\ call'.op = "destroyModels"
      /\ call'.args.models = Null
      /\ ~call'.args.truncate) =>
       /\ result'.kind = "ok"
       /\ requests' = requests
       /\ bucket' = bucket]_vars

\* C9 (as claimed): truncate(Model) and destroyModels(Model, null,
\* {truncate: true}) have the same outcome, and once either has completed the
\* bucket holds no records.
C9_TruncateEmptiesBucket ==
  (\/ call.op = "truncate"
   \/ (call.op = "destroyModels" /\ call.args.models = Null /\ call.args.truncate)) =>
    /\ result.kind = "ok"
    /\ bucket = 0

\* ceil(n / b)
CeilDiv(n, b) == (n + b - 1) \div b

\* C10 (as claimed): insert, update and destroyModels of N records with batch
\* size B issue exactly ceil(N/B) transport calls and return N records.
C10_CeilBatches ==
  (call.op \in {"insert", "update", "destroyModels"} /\ call.args.models # Null) =>
    /\ result.kind = "ok"
    /\ result.length = call.args.models
    /\ sent = CeilDiv(call.args.models, call.args.batchSize)

\* C11 (as claimed): in a bulk insert whose batch k fails, batches 0..k are
\* submitted and none after k, the k batches before it stay committed in the
\* bucket, and the call fails.
C11_FailedBatchAborts ==
  [][(call'.op = "insert" /\ call'.args.failAt # Null) =>
       /\ result'.kind = "error"
       /\ sent' = call'.args.failAt + 1
       /\ bucket' = bucket + call'.args.failAt * call'.args.batchSize]_vars

\* C12 (as claimed): insert of one record returns one inserted record, insert
\* of an array of N records returns an array of N records.
C12_InsertKeepsShape ==
  (call.op = "insert" /\ call.args.models # Null /\ call.args.failAt = Null) =>
    /\ result.kind = "ok"
    /\ call.args.single => (result.value = "record" /\ result.length = Null)
    /\ ~call.args.single => (result.value = "array" /\ result.length = call.args.models)

\* C13 (as claimed): count(query) returns the number of records the query
\* matches (the query of QueryArgs matches every record of the bucket).
C13_CountReturnsMatches ==
  call.op = "count" => (result.kind = "ok" /\ result.number = bucket)

AggregateWrappers == {"average", "count", "min", "max", "sum"}

\* C14 (as claimed): average, count, min, max and sum each call aggregate
\* exactly once and end with aggregate's outcome.
C14_WrappersDelegate ==
  call.op \in AggregateWrappers =>
    /\ inner = <<[op |-> "aggregate", model |-> 0]>>
    /\ result = NotSupported("aggregate")

\* C15 (as claimed): exists(query) returns false when no record matches and
\* true when at least one does.
C15_ExistsReturnsBoolean ==
  call.op = "exists" =>
    /\ result.kind = "ok"
    /\ result.value = (IF bucket = 0 THEN "false" ELSE "true")
    /\ sent <= 1

\* C16 (as claimed): the first pull of a select sequence fetches a page in one
\* transport round trip and yields from it; abandoning the sequence issues no
\* transport call, nor does any pull after that.
C16_SelectPagesAndCancels ==
  [][/\ (gen = "suspendedStart" /\ call'.op = "select.next")
          => (result'.kind = "ok" /\ sent' = 1)
     /\ call'.op = "select.return" => requests' = requests
     /\ (gen = "closed" /\ call'.op = "select.next") => requests' = requests]_vars

\* C17 (as claimed): destroy(query) deletes by query and returns the number of
\* deleted records; destroy(Model, models) calls destroyModels once and ends
\* with its outcome.
C17_DestroyDispatches ==
  call.op = "destroy" =>
    /\ call.args.target = "query"
         => (result.kind = "ok" /\ result.number \in 0 .. MaxRecords)
    /\ call.args.target # "query"
         => /\ inner = <<[op |-> "destroyModels", model |-> 0]>>
            /\ result = NotSupported("destroyModels")

\* C18 (as claimed): update fails with MissingPrimaryKey when a record has no
\* primary key; otherwise it succeeds and submits requests for dirty records
\* only.
C18_UpdateDirtyOnly ==
  (call.op = "update" /\ call.args.dirty # Null) =>
    /\ call.args.missingPK
         => (result.kind = "error" /\ result.text = "MissingPrimaryKey")
    /\ ~call.args.missingPK
         => (result.kind = "ok" /\ sent <= call.args.dirty)

\* C19 (as claimed): createTables calls createTable once per model in creation
\* order, dropTables calls dropTable once per model in the reverse order, and
\* each returns the list of the per-model results.
C19_TablesInOrder ==
  LET n == call.args.models IN
    (call.op \in {"createTables", "dropTables"} /\ n # Null) =>
      /\ result.kind = "ok"
      /\ result.length = n
      /\ call.op = "createTables"
           => inner = [i \in 1 .. n |-> [op |-> "createTable", model |-> i]]
      /\ call.op = "dropTables"
           => inner = [i \in 1 .. n |-> [op |-> "dropTable", model |-> n + 1 - i]]

\* C20 (as claimed): a call of query with a logger supplied, failing or not,
\* delivers a record of the call to the logger.
C20_QueryIsLogged ==
  [][(call'.op = "query" /\ call'.args.logger # "none") => logged' = logged + 1]_vars

\* C22: the constructor installs a new SOLRQueryGenerator bound to the
\* connection exactly when options.queryGenerator is absent (no options, no such
\* key, or null); when the caller supplies one, the constructor installs nothing
\* in its place.
C22_DefaultGeneratorWhenAbsent ==
  call.op = "constructor" =>
    /\ call.args.queryGenerator # "supplied" => inner = <<SetDefaultQueryGenerator>>
    /\ call.args.queryGenerator = "supplied" => inner = <<>>

\* C22 witness: a connection constructed with a generator of the caller's, on
\* which setQueryGenerator was not called.
C22_Witness ==
  /\ call.op = "constructor" /\ call.args.queryGenerator = "supplied"
  /\ inner = <<>>

\* The name a stub puts in its message: its own, but for the two that carry
\* the name of a neighbour.
MessageName(op) ==
  IF op = "alterTable" THEN "renameTable"
  ELSE IF op = "dropIndex" THEN "addIndex" ELSE op

\* What a call answers on a connection that was never started; g is the state
\* of the generator that select.next / select.return is called on.
OutcomeWhenStopped(op, args, g) ==
  IF op \in {"createTables", "dropTables"}
    THEN (IF args.models = Null THEN Returned("undefined") ELSE UtilsNotDefined)
  ELSE IF op = "select" THEN Sequence
  ELSE IF op = "select.next"
    THEN (IF g = "suspendedStart" THEN NotSupported("select") ELSE Returned("done"))
  ELSE IF op = "select.return" THEN Returned("done")
  ELSE NotSupported(MessageName(op))

\* C23: the outcome of every data, DDL and transaction operation is the same
\* on a started connection as on a stopped one: whatever the lifecycle state,
\* a call answers what the same call with the same arguments answers on a
\* connection that was never started.
C23_SameOutcomeStartedOrStopped ==
  [][call'.op \notin {"start", "stop", "isStarted"}
       => result' = OutcomeWhenStopped(call'.op, call'.args, gen)]_vars

\* C23 witness: a started connection, restarted once, answering exists with
\* the error a stopped connection gives.
C23_Witness ==
  /\ isStarted /\ released # {}
  /\ call.op = "exists" /\ result = NotSupported("exists")

\* C24: only start() and stop() change the lifecycle state: every other call,
\* whether it returns or fails, leaves the transport handle, and so
\* isStarted(), as it was.
C24_OnlyStartStopChangeHandle ==
  [][call'.op \notin {"start", "stop"}
       => (httpClient' = httpClient /\ lastLifecycle' = lastLifecycle)]_vars

\* C24 witness: a started connection still started after a failed truncate.
C24_Witness ==
  /\ isStarted /\ lastLifecycle = "start"
  /\ call.op = "truncate" /\ result.kind = "error"

\* C25: no operation ever issues a transport request: in every reachable
\* state the number of requests sent through the transport handle is zero.
C25_NoTransportRequests == requests = 0 /\ sent = 0

\* C25 witness: a connection started, stopped and started again, after a
\* query call, with nothing sent.
C25_Witness ==
  /\ isStarted /\ released # {} /\ call.op = "query"
  /\ requests = 0

\* C26: transaction(callback) never invokes the callback: it fails, and what
\* the callback would return is never the call's result.
C26_CallbackNeverInvoked ==
  /\ callbackCalls = 0
  /\ call.op = "transaction"
       => (result.kind = "error" /\ result.value # call.args.callbackValue)

\* C26 witness: a transaction called on a started connection with a callback
\* that would return v2, rejected with the callback not run.
C26_Witness ==
  /\ call.op = "transaction" /\ call.args.callbackValue = "v2" /\ isStarted
  /\ result.kind = "error" /\ callbackCalls = 0

\* C27: select defers its failure to the first pull: the call returns a
\* sequence suspended at its start and raises nothing; the first pull raises
\* the error; the error is raised by nothing but a first pull; abandoning the
\* sequence raises nothing.
C27_SelectFailsOnFirstPull ==
  [][/\ call'.op = "select" => (result' = Sequence /\ gen' = "suspendedStart")
     /\ (call'.op = "select.next" /\ gen = "suspendedStart")
          => result' = NotSupported("select")
     /\ (result'.kind = "error" /\ result'.op = "select")
          => (call'.op = "select.next" /\ gen = "suspendedStart")
     /\ call'.op = "select.return" => result'.kind # "error"]_vars

\* C27 witness: the first pull of a sequence has raised select's error.
C27_Witness ==
  /\ call.op = "select.next" /\ result = NotSupported("select")
  /\ gen = "closed"

\* C28 (as claimed): createTables and dropTables given an empty list complete
\* with an empty list of results and call neither createTable nor dropTable;
\* given null they return undefined and call nothing.
C28_EmptyListSucceeds ==
  call.op \in {"createTables", "dropTables"} =>
    /\ call.args.models = 0
         => (result.kind = "ok" /\ result.length = 0 /\ inner = <<>>)
    /\ call.args.models = Null
         => (result = Returned("undefined") /\ inner = <<>>)

====
